---- MODULE Spec2Model ----
(***************************************************************************)
(* A model of the process / scheduling core of the rCore teaching kernel:  *)
(*   os/src/task/manager.rs     the stride ready queue (add / fetch)       *)
(*   os/src/syscall/process.rs  the process syscalls                       *)
(*   os/src/task/mod.rs         the task table with its cyclic scheduler   *)
(* The task control block, the processor (current task, idle loop) and the *)
(* memory set are not part of the sources at hand; they are modelled from  *)
(* the written specification and marked so in MODEL_MAP.json.              *)
(***************************************************************************)
EXTENDS Integers, Sequences, FiniteSets, TLC

(***************************************************************************)
(* Bounds of the model.                                                    *)
(***************************************************************************)
\* number of pids the pid allocator hands out (pids 0 .. MaxTasks-1)
MaxTasks == 3
\* the machine word is scaled down: usize arithmetic is taken modulo WordMod
WordMod == 16
\* largest priority a user program passes to set_priority
MaxPrio == 4
\* counted syscalls issued in one run
MaxCalls == 2
\* user address space of MaxPage pages
MaxPage == 3
\* number of applications linked into the task table (os/src/task/mod.rs)
MaxApp == 3
\* areas a task of the task table holds at most
MaxAreas == 2

(***************************************************************************)
(* Program constants.                                                      *)
(***************************************************************************)
\* config::BIGSTRIDE, scaled with the machine word
BIGSTRIDE == 8
\* TaskControlBlock defaults for a new task
DefaultPriority == 2
DefaultStride == 0
PAGE_SIZE == 4096
\* MapPermission::U
PermU == 16

Pids == 0 .. (MaxTasks - 1)
NoTask == -1
\* syscall ids that are counted by sys_call_add in process.rs
CountedSyscalls == {"get_time", "task_info", "mmap", "munmap", "set_priority", "spawn"}

VARIABLES
    ready_queue,   \* manager.rs TaskManager.ready_queue: sequence of pids
    current,       \* the processor's current task (NoTask while in the idle loop)
    tcb,           \* pid -> task control block
    halted,        \* the kernel has panicked
    ret,           \* the last operation: name, caller, arguments, return value, user-memory
                   \* writes, and what it found (`old`: the part of the state it read)
    last_fetch,    \* the queue, strides and passes TaskManager::fetch was called with by the
                   \* last operation
    tasks,         \* mod.rs TaskManagerInner.tasks: sequence of task records
    current_task,  \* mod.rs TaskManagerInner.current_task (index from 0)
    started,       \* mod.rs: run_first_task has been called
    borrowed       \* mod.rs: guards of TASK_MANAGER.inner that are live (exclusive_access
                   \* taken and not yet dropped)

tableVars == <<tasks, current_task, started, borrowed>>
vars == <<ready_queue, current, tcb, halted, ret, last_fetch, tasks, current_task, started,
          borrowed>>

(***************************************************************************)
(* Helpers on sequences.                                                   *)
(***************************************************************************)
RemoveAt(s, i) == [k \in 1 .. (Len(s) - 1) |-> IF k < i THEN s[k] ELSE s[k + 1]]

Occurrences(s, x) == Cardinality({k \in 1 .. Len(s) : s[k] = x})

\* `x as usize` for an isize x
AsUsize(x) == x % WordMod

(***************************************************************************)
(* Task control blocks.                                                    *)
(***************************************************************************)
ZeroCounts == [n \in CountedSyscalls |-> 0]

\* the areas of a freshly loaded program image: one read/execute segment
ImageAreas == <<[start |-> 0, end |-> 1, perm |-> 2 + 8 + PermU]>>

\* the slot of a pid that names no task
FreeTCB ==
    [status |-> "Free", priority |-> DefaultPriority, stride |-> DefaultStride,
     pass |-> BIGSTRIDE \div DefaultPriority, children |-> <<>>, parent |-> NoTask,
     exit_code |-> 0, areas |-> <<>>, call_count |-> ZeroCounts, x10 |-> 0]

\* TaskControlBlock::new(image): a Ready task built from a program image
NewTCB == [FreeTCB EXCEPT !.status = "Ready", !.areas = ImageAreas]

\* TaskControlBlock::fork: the child of parent p (priority copied, stride and pass reset)
ForkTCB(t, p) ==
    [NewTCB EXCEPT !.priority = t[p].priority, !.parent = p, !.areas = t[p].areas]

\* TaskControlBlock::spawn: a task built from an image, with parent p
SpawnTCB(p) == [NewTCB EXCEPT !.parent = p]

\* pids the allocator can hand out
FreePids(t) == {p \in Pids : t[p].status = "Free"}

\* pid_alloc: the lowest pid not in use
pid_alloc(t) == CHOOSE p \in FreePids(t) : \A o \in FreePids(t) : p <= o

\* counted syscalls issued so far by the tasks of the process world
TotalCalls(t) ==
    LET RECURSIVE Sum(_)
        Sum(S) == IF S = {} THEN 0
                  ELSE LET x == CHOOSE x \in S : TRUE
                       IN t[x[1]].call_count[x[2]] + Sum(S \ {x})
    IN Sum(Pids \X CountedSyscalls)

\* Arc::strong_count of task x: its owners are the children lists, the ready
\* queue and the processor
strong_count(t, q, cur, x) ==
    Cardinality({p \in Pids : t[p].status # "Free" /\ Occurrences(t[p].children, x) > 0})
    + Occurrences(q, x)
    + (IF cur = x THEN 1 ELSE 0)

\* the tasks whose control block is freed when `root`, already unlinked from
\* its owners, is dropped: root, and every descendant no one else owns
RECURSIVE Dropped(_, _, _, _)
Dropped(t, q, cur, roots) ==
    LET more == {c \in Pids \ roots :
                    /\ \E r \in roots : Occurrences(t[r].children, c) > 0
                    /\ Occurrences(q, c) = 0
                    /\ cur # c
                    /\ \A o \in Pids \ roots :
                          t[o].status = "Free" \/ Occurrences(t[o].children, c) = 0}
    IN IF more = {} THEN roots ELSE Dropped(t, q, cur, roots \cup more)

\* the control blocks after the tasks in `gone` are freed
Deallocate(t, gone) ==
    [p \in Pids |->
        IF p \in gone THEN FreeTCB
        ELSE IF t[p].parent \in gone THEN [t[p] EXCEPT !.parent = NoTask]
        ELSE t[p]]

(***************************************************************************)
(* manager.rs: the stride ready queue.                                     *)
(***************************************************************************)
\* TaskManager::add
add_front(q, task) == <<task>> \o q

add(q, task) == Append(q, task)

\* the scan of fetch: the loop over ready_queue.iter().enumerate() from
\* position i on, carrying min_index and min_stride
RECURSIVE scan_le(_, _, _, _, _)
scan_le(q, t, i, min_index, min_stride) ==
    IF i > Len(q) THEN min_index
    ELSE IF t[q[i]].stride <= min_stride
         THEN scan_le(q, t, i + 1, i, t[q[i]].stride)
         ELSE scan_le(q, t, i + 1, min_index, min_stride)

RECURSIVE scan(_, _, _, _, _)
scan(q, t, i, min_index, min_stride) ==
    IF i > Len(q) THEN min_index
    ELSE IF t[q[i]].stride < min_stride
         THEN scan(q, t, i + 1, i, t[q[i]].stride)
         ELSE scan(q, t, i + 1, min_index, min_stride)

\* TaskManager::fetch: the task taken (NoTask for None), the queue and the
\* control blocks afterwards, and whether stride + pass left the machine word
fetch(q, t) ==
    IF q = <<>>
    THEN [task |-> NoTask, queue |-> q, tcb |-> t, overflow |-> FALSE]
    ELSE LET min_index == scan(q, t, 1, 1, t[q[1]].stride)
             task == q[min_index]
             sum == t[task].stride + t[task].pass
         IN [task |-> task,
             queue |-> RemoveAt(q, min_index),
             tcb |-> [t EXCEPT ![task].stride = sum % WordMod],
             overflow |-> sum >= WordMod]

\* what fetch was called with
FetchLog(q, t) ==
    [called |-> TRUE, queue |-> q,
     stride |-> [p \in Pids |-> t[p].stride], pass |-> [p \in Pids |-> t[p].pass]]
NoFetch == [called |-> FALSE, queue |-> <<>>, stride |-> <<>>, pass |-> <<>>]

(***************************************************************************)
(* The processor: current task and idle loop.                              *)
(***************************************************************************)
Ret(op, caller, args, val, wrote, old) ==
    [op |-> op, caller |-> caller, args |-> args, val |-> val, wrote |-> wrote, old |-> old]

\* the kernel panics inside operation r: nothing else happens any more
Panic(r, why) ==
    /\ halted' = TRUE
    /\ ret' = [r EXCEPT !.op = "panic", !.old = why]
    /\ last_fetch' = NoFetch
    /\ UNCHANGED <<ready_queue, current, tcb>>

\* the idle loop takes over with ready queue q and control blocks t, at the
\* end of operation r: fetch_task, then switch to the task fetched.  With no
\* task to fetch the kernel halts.  An overflowing stride + pass wraps in a
\* build without overflow checks and panics in a build with them.
Dispatch(q, t, r) ==
    LET f == fetch(q, t)
    IN IF f.task = NoTask
       THEN /\ halted' = TRUE
            /\ ready_queue' = f.queue
            /\ tcb' = f.tcb
            /\ current' = NoTask
            /\ ret' = r
            /\ last_fetch' = FetchLog(q, t)
       ELSE \E wraps \in (IF f.overflow THEN BOOLEAN ELSE {TRUE}) :
               IF wraps
               THEN /\ ready_queue' = f.queue
                    /\ tcb' = [f.tcb EXCEPT ![f.task].status = "Running"]
                    /\ current' = f.task
                    /\ ret' = r
                    /\ last_fetch' = FetchLog(q, t)
                    /\ UNCHANGED halted
               ELSE Panic(r, "attempt to add with overflow")

\* the kernel has left rust_main for one of its two entries, run_tasks (the
\* idle loop of the processor) or run_first_task (the task table): neither returns
Booted == started \/ current # NoTask \/ halted

\* run_tasks: the idle loop at boot
run_tasks ==
    /\ ~Booted
    /\ Dispatch(ready_queue, tcb, Ret("run_tasks", NoTask, <<>>, 0, <<>>, <<>>))
    /\ UNCHANGED tableVars

(***************************************************************************)
(* process.rs: the process syscalls.                                       *)
(***************************************************************************)
\* sys_yield: suspend_current_and_run_next
sys_yield ==
    /\ ~halted
    /\ current # NoTask
    /\ Dispatch(add(ready_queue, current),
                [tcb EXCEPT ![current].status = "Ready"],
                Ret("yield", current, <<>>, 0, <<>>, <<>>))
    /\ UNCHANGED tableVars

\* sys_exit: exit_current_and_run_next(exit_code)
sys_exit(exit_code) ==
    /\ ~halted
    /\ current # NoTask
    /\ Dispatch(ready_queue,
                [tcb EXCEPT ![current].status = "Zombie", ![current].exit_code = exit_code],
                Ret("exit", current, <<exit_code>>, 0, <<>>, <<>>))
    /\ UNCHANGED tableVars

\* what an operation that creates a task finds: the pids in use, the ready
\* queue and the caller's control block
Found(t, q, caller) ==
    [live |-> {p \in Pids : t[p].status # "Free"}, queue |-> q, tcb |-> t[caller]]

\* values of the register a0 (x[10]) of a trap context at a syscall
Regs == {0, 7}

\* trap_cx.x[10] = 0 on the child's copy of the parent's trap context, whose
\* x[10] holds a0
child_x10_kept(a0) == a0

child_x10(a0) == 0

\* sys_fork
sys_fork ==
    /\ ~halted
    /\ current # NoTask
    /\ FreePids(tcb) # {}
    /\ \E a0 \in Regs :
          LET new_pid == pid_alloc(tcb)
              new_task == [ForkTCB(tcb, current) EXCEPT !.x10 = child_x10(a0)]
          IN /\ tcb' = [tcb EXCEPT ![new_pid] = new_task,
                                   ![current].children = Append(@, new_pid)]
             /\ ready_queue' = add(ready_queue, new_pid)
             /\ ret' = Ret("fork", current, <<>>, new_pid, <<>>,
                           Found(tcb, ready_queue, current))
    /\ last_fetch' = NoFetch
    /\ UNCHANGED <<current, halted>>
    /\ UNCHANGED tableVars

\* the first index of a child that is a zombie and matches pid, 0 for none
\* (the find over children.iter().enumerate())
find_zombie_last(t, ch, pid) ==
    LET hits == {i \in 1 .. Len(ch) :
                    t[ch[i]].status = "Zombie" /\ (pid = -1 \/ AsUsize(pid) = ch[i])}
    IN IF hits = {} THEN 0 ELSE CHOOSE i \in hits : \A j \in hits : j <= i

find_zombie(t, ch, pid) ==
    LET hits == {i \in 1 .. Len(ch) :
                    t[ch[i]].status = "Zombie" /\ (pid = -1 \/ AsUsize(pid) = ch[i])}
    IN IF hits = {} THEN 0 ELSE CHOOSE i \in hits : \A j \in hits : i <= j

\* inner.children.remove(idx)
remove_child_kept(ch, idx) == ch

remove_child(ch, idx) == RemoveAt(ch, idx)

\* the exit code sys_waitpid reads from the reaped child
reaped_exit_code_zero(t, child) == 0

reaped_exit_code(t, child) == t[child].exit_code

\* sys_waitpid
sys_waitpid(pid, exit_code_ptr) ==
    /\ ~halted
    /\ current # NoTask
    /\ LET ch == tcb[current].children
           idx == find_zombie(tcb, ch, pid)
           r(val, wrote) ==
               Ret("waitpid", current, <<pid, exit_code_ptr>>, val, wrote,
                   [children |-> ch,
                    zombie |-> [i \in 1 .. Len(ch) |-> tcb[ch[i]].status = "Zombie"],
                    exit_code |-> [i \in 1 .. Len(ch) |-> tcb[ch[i]].exit_code]])
       IN IF ~ \E i \in 1 .. Len(ch) : pid = -1 \/ AsUsize(pid) = ch[i]
          THEN /\ ret' = r(-1, <<>>)
               /\ last_fetch' = NoFetch
               /\ UNCHANGED <<ready_queue, current, tcb, halted>>
          ELSE IF idx = 0
          THEN /\ ret' = r(-2, <<>>)
               /\ last_fetch' = NoFetch
               /\ UNCHANGED <<ready_queue, current, tcb, halted>>
          ELSE LET child == ch[idx]
                   t1 == [tcb EXCEPT ![current].children = remove_child(ch, idx)]
               IN IF strong_count(t1, ready_queue, current, child) + 1 # 1
                  THEN Panic(r(0, <<>>), "assert_eq!(Arc::strong_count(&child), 1)")
                  ELSE /\ tcb' = Deallocate(t1, Dropped(t1, ready_queue, current, {child}))
                       /\ ret' = r(child, <<<<exit_code_ptr, reaped_exit_code(tcb, child)>>>>)
                       /\ last_fetch' = NoFetch
                       /\ UNCHANGED <<ready_queue, current, halted>>
    /\ UNCHANGED tableVars

\* sys_call_add(num, &task) of process.rs
sys_call_add(t, num, task) == [t EXCEPT ![task].call_count[num] = @ + 1]

\* the pass sys_set_priority sets: BIGSTRIDE/(_prio as usize)
pass_of_stale(prio) == BIGSTRIDE \div DefaultPriority

pass_of(prio) == BIGSTRIDE \div AsUsize(prio)

\* sys_set_priority
sys_set_priority(prio) ==
    /\ ~halted
    /\ current # NoTask
    /\ IF prio < 2
       THEN /\ ret' = Ret("set_priority", current, <<prio>>, -1, <<>>, tcb[current])
            /\ UNCHANGED tcb
       ELSE /\ TotalCalls(tcb) < MaxCalls
            /\ tcb' = [sys_call_add(tcb, "set_priority", current)
                          EXCEPT ![current].priority = prio,
                                 ![current].pass = pass_of(prio)]
            /\ ret' = Ret("set_priority", current, <<prio>>, prio, <<>>, tcb[current])
    /\ last_fetch' = NoFetch
    /\ UNCHANGED <<ready_queue, current, halted>>
    /\ UNCHANGED tableVars

(***************************************************************************)
(* The memory set: a sequence of areas [start, end) of virtual page        *)
(* numbers with a permission.                                              *)
(***************************************************************************)
\* VirtAddr::floor and VirtAddr::ceil
floor(va) == va \div PAGE_SIZE
ceil(va) == (va + PAGE_SIZE - 1) \div PAGE_SIZE

\* MapPermission::from_bits((port as u8) << 1) with MapPermission::U set
permission(port) ==
    LET bits == (port * 2) % 256
    IN IF (bits \div PermU) % 2 = 1 THEN bits ELSE bits + PermU

\* the overlap test of mmap: some area meets the pages [page_floor, page_ceil)
overlaps_start_only(as, page_floor, page_ceil) ==
    \E i \in 1 .. Len(as) : as[i].start <= page_floor /\ as[i].end > page_floor

overlaps_same_start(as, page_floor, page_ceil) ==
    \E i \in 1 .. Len(as) : as[i].start = page_floor

overlaps(as, page_floor, page_ceil) ==
    \E i \in 1 .. Len(as) : as[i].start < page_ceil /\ as[i].end > page_floor

\* MemorySet::insert_framed_area(start_va, end_va, permission)
insert_framed_area(as, start_va, end_va, perm) ==
    Append(as, [start |-> floor(start_va), end |-> ceil(end_va), perm |-> perm])

\* the pages of an area
Pages(a) == {p \in 0 .. (MaxPage + 1) : a.start <= p /\ p < a.end}

\* what is left of the areas from position i on once the pages [s, e) are cut out
RECURSIVE Cut(_, _, _, _)
Cut(as, i, s, e) ==
    IF i > Len(as) THEN <<>>
    ELSE LET a == as[i]
             left == IF a.start < s THEN <<[a EXCEPT !.end = s]>> ELSE <<>>
             right == IF a.end > e THEN <<[a EXCEPT !.start = e]>> ELSE <<>>
         IN (IF a.start < e /\ a.end > s /\ a.start < a.end
             THEN left \o right
             ELSE <<a>>) \o Cut(as, i + 1, s, e)

\* MemorySet::unmap(start, len): 0 with the pages [start, start+len) cut out
\* of the areas, or -1 with the areas as they were when start or len is not
\* page aligned or some page of the range is not mapped
unmap(as, start, len) ==
    LET s == start \div PAGE_SIZE
        e == (start + len) \div PAGE_SIZE
    IN IF \/ start % PAGE_SIZE # 0
          \/ len % PAGE_SIZE # 0
          \/ \E p \in s .. (e - 1) : \A i \in 1 .. Len(as) : p \notin Pages(as[i])
       THEN [val |-> -1, areas |-> as]
       ELSE [val |-> 0, areas |-> Cut(as, 1, s, e)]

\* arguments user programs pass to mmap and munmap
Addrs == {0, PAGE_SIZE \div 2} \cup {k * PAGE_SIZE : k \in 1 .. MaxPage}
Ports == {0, 3, 11}
InRange(start, len) == start + len <= MaxPage * PAGE_SIZE

\* the argument check of sys_mmap
mmap_args_bad_no_zero(start, port) ==
    (port \div 8) # 0 \/ start % 4096 # 0

mmap_args_bad(start, port) ==
    (port \div 8) # 0 \/ start % 4096 # 0 \/ port % 8 = 0

\* sys_mmap
sys_mmap(start, len, port) ==
    /\ ~halted
    /\ current # NoTask
    /\ InRange(start, len)
    /\ LET r(val) == Ret("mmap", current, <<start, len, port>>, val, <<>>, tcb[current])
           page_floor == floor(start)
           page_ceil == ceil(start + len)
           t1 == sys_call_add(tcb, "mmap", current)
       IN IF mmap_args_bad(start, port)
          THEN /\ ret' = r(-1)
               /\ UNCHANGED tcb
          ELSE /\ TotalCalls(tcb) < MaxCalls
               /\ IF overlaps(tcb[current].areas, page_floor, page_ceil)
                  THEN /\ ret' = r(-1)
                       /\ tcb' = t1
                  ELSE /\ ret' = r(0)
                       /\ tcb' = [t1 EXCEPT ![current].areas =
                                     insert_framed_area(@, start, start + len, permission(port))]
    /\ last_fetch' = NoFetch
    /\ UNCHANGED <<ready_queue, current, halted>>
    /\ UNCHANGED tableVars

\* the return value of sys_munmap once its arguments are accepted, given the
\* result of MemorySet::unmap: `memset.unmap(_start, _len); 0`
munmap_result(unmapped) == 0

\* the arguments sys_munmap hands to MemorySet::unmap
unmap_args_end(start, len) == <<start, start + len>>

unmap_args(start, len) == <<start, len>>

\* what sys_munmap finds: the task's control block, and the operation before it
Before(t) ==
    [tcb |-> t, areas |-> t.areas,
     prev |-> [op |-> ret.op, caller |-> ret.caller, args |-> ret.args, val |-> ret.val,
               areas |-> IF ret.op = "mmap" THEN ret.old.areas ELSE <<>>]]

\* sys_munmap
sys_munmap(start, len) ==
    /\ ~halted
    /\ current # NoTask
    /\ InRange(start, len)
    /\ LET r(val) == Ret("munmap", current, <<start, len>>, val, <<>>, Before(tcb[current]))
           a == unmap_args(start, len)
           u == unmap(tcb[current].areas, a[1], a[2])
       IN IF start % 4096 # 0 \/ len % 4096 # 0
          THEN /\ ret' = r(-1)
               /\ UNCHANGED tcb
          ELSE /\ TotalCalls(tcb) < MaxCalls
               /\ ret' = r(munmap_result(u))
               /\ tcb' = [sys_call_add(tcb, "munmap", current)
                             EXCEPT ![current].areas = u.areas]
    /\ last_fetch' = NoFetch
    /\ UNCHANGED <<ready_queue, current, halted>>
    /\ UNCHANGED tableVars

(***************************************************************************)
(* process.rs: programs (spawn, exec) and snapshots (get_time, task_info). *)
(***************************************************************************)
\* paths user programs pass: no such file, a file that is no program image,
\* a program image
Paths == {"none", "bad", "app"}

\* open_file(path, RDONLY): whether the path names a file
open_file(path) == path # "none"

\* whether the file's data is a program image that can be loaded
loadable(path) == path = "app"

\* TaskControlBlock::exec(data): address space and trap context replaced in
\* place, or the task left as it was when the image cannot be loaded
exec(tc, path) ==
    IF loadable(path) THEN [tc EXCEPT !.areas = ImageAreas, !.x10 = 0] ELSE tc

\* the value sys_exec returns once the file is open: `task.exec(..); 0`
exec_result(path) == 0

\* sys_exec
sys_exec(path) ==
    /\ ~halted
    /\ current # NoTask
    /\ LET r(val) == Ret("exec", current, <<path>>, val, <<>>,
                         Found(tcb, ready_queue, current))
       IN IF open_file(path)
          THEN /\ tcb' = [tcb EXCEPT ![current] = exec(@, path)]
               /\ ret' = r(exec_result(path))
          ELSE /\ ret' = r(-1)
               /\ UNCHANGED tcb
    /\ last_fetch' = NoFetch
    /\ UNCHANGED <<ready_queue, current, halted>>
    /\ UNCHANGED tableVars

\* the parent link TaskControlBlock::spawn gives the new task
spawn_parent(p) == p

\* sys_spawn
sys_spawn(path) ==
    /\ ~halted
    /\ current # NoTask
    /\ path # "bad"
    /\ TotalCalls(tcb) < MaxCalls
    /\ LET r(val) == Ret("spawn", current, <<path>>, val, <<>>,
                         Found(tcb, ready_queue, current))
           t1 == sys_call_add(tcb, "spawn", current)
       IN IF open_file(path)
          THEN /\ FreePids(tcb) # {}
               /\ LET new_pid == pid_alloc(tcb)
                  IN /\ tcb' = [t1 EXCEPT ![new_pid] = SpawnTCB(spawn_parent(current)),
                                          ![current].children = Append(@, new_pid)]
                     /\ ready_queue' = add(ready_queue, new_pid)
                     /\ ret' = r(new_pid)
          ELSE /\ tcb' = t1
               /\ ret' = r(-1)
               /\ UNCHANGED ready_queue
    /\ last_fetch' = NoFetch
    /\ UNCHANGED <<current, halted>>
    /\ UNCHANGED tableVars

\* translated_refmut(token, ptr): whether the page of ptr is mapped in the
\* address space, so that the reference can be formed
translated(as, ptr) == \E i \in 1 .. Len(as) : (ptr \div PAGE_SIZE) \in Pages(as[i])

\* microseconds and milliseconds the timer reads
Micros == {0, 1500000}
Millis == {0, 3}

\* sys_get_time
sys_get_time(ts, us) ==
    /\ ~halted
    /\ current # NoTask
    /\ TotalCalls(tcb) < MaxCalls
    /\ LET r(wrote) == Ret("get_time", current, <<ts>>, 0, wrote,
                           Found(tcb, ready_queue, current))
           time_val == [sec |-> us \div 1000000, usec |-> us % 1000000]
       IN IF translated(tcb[current].areas, ts)
          THEN /\ tcb' = sys_call_add(tcb, "get_time", current)
               /\ ret' = r(<<<<ts, time_val>>>>)
               /\ last_fetch' = NoFetch
               /\ UNCHANGED <<ready_queue, current, halted>>
          ELSE Panic(r(<<>>), "translated_refmut: address not mapped")
    /\ UNCHANGED tableVars

\* get_sys_call(): the counters of the task that asks
get_sys_call(t, task) == t[task].call_count

\* sys_task_info; elapsed is get_total_time(), the time since the task was
\* first scheduled
sys_task_info(ti, elapsed) ==
    /\ ~halted
    /\ current # NoTask
    /\ TotalCalls(tcb) < MaxCalls
    /\ LET r(val, wrote) == Ret("task_info", current, <<ti>>, val, wrote,
                                Found(tcb, ready_queue, current))
           t1 == sys_call_add(tcb, "task_info", current)
           info == [syscall_times |-> get_sys_call(t1, current),
                    status |-> "Running",
                    time |-> elapsed]
       IN IF translated(tcb[current].areas, ti)
          THEN /\ tcb' = t1
               /\ ret' = r(0, <<<<ti, info>>>>)
               /\ last_fetch' = NoFetch
               /\ UNCHANGED <<ready_queue, current, halted>>
          ELSE Panic(r(0, <<>>), "translated_refmut: address not mapped")
    /\ UNCHANGED tableVars

(***************************************************************************)
(* task/mod.rs: the task table and its cyclic scheduler.                   *)
(***************************************************************************)
None == -1

\* TaskControlBlock::new(get_app_data(i), i)
NewTask == [task_status |-> "Ready", areas |-> ImageAreas, call_count |-> ZeroCounts]

num_app == Cardinality(DOMAIN tasks)

\* counted syscalls issued so far by the tasks of the task table
TableCalls(ts) ==
    LET RECURSIVE Sum(_)
        Sum(S) == IF S = {} THEN 0
                  ELSE LET x == CHOOSE x \in S : TRUE
                       IN ts[x[1]].call_count[x[2]] + Sum(S \ {x})
    IN Sum((DOMAIN ts) \X CountedSyscalls)

\* mark_current_suspended
mark_current_suspended_noop(ts, cur) == ts

mark_current_suspended(ts, cur) == [ts EXCEPT ![cur].task_status = "Ready"]

\* mark_current_exited
mark_current_exited(ts, cur) == [ts EXCEPT ![cur].task_status = "Exited"]

\* find_next_task: the first Ready task in the order current+1, current+2, ...
\* taken modulo the number of tasks; None when no task is Ready
find_next_task_any(ts, cur) == (cur + 1) % Cardinality(DOMAIN ts)

find_next_task_not_running(ts, cur) ==
    LET n == Cardinality(DOMAIN ts)
        hits == {k \in 1 .. n : ts[(cur + k) % n].task_status # "Running"}
    IN IF hits = {} THEN None
       ELSE (cur + (CHOOSE k \in hits : \A j \in hits : k <= j)) % n

find_next_task_skips_self(ts, cur) ==
    LET n == Cardinality(DOMAIN ts)
        hits == {k \in 1 .. (n - 1) : ts[(cur + k) % n].task_status = "Ready"}
    IN IF hits = {} THEN None
       ELSE (cur + (CHOOSE k \in hits : \A j \in hits : k <= j)) % n

find_next_task(ts, cur) ==
    LET n == Cardinality(DOMAIN ts)
        hits == {k \in 1 .. n : ts[(cur + k) % n].task_status = "Ready"}
    IN IF hits = {} THEN None
       ELSE (cur + (CHOOSE k \in hits : \A j \in hits : k <= j)) % n

\* self.inner.exclusive_access(): one more guard of TASK_MANAGER.inner is live
exclusive_access(b) == b + 1

\* drop(inner), the last statement before __switch
drop_forgotten(b) == b

drop(b) == b - 1

\* the guards live at the __switch of run_first_task and of run_next_task,
\* entered with b guards live: `let mut inner = ..exclusive_access()` ...
\* `drop(inner)` ... `__switch(..)`
guards_at_switch(b) == drop(exclusive_access(b))

\* exclusive_access while a guard is live: the RefCell is already borrowed
\* and the kernel panics inside operation r
BorrowPanic(r) ==
    /\ halted' = TRUE
    /\ ret' = [r EXCEPT !.op = "panic", !.old = "already borrowed: BorrowMutError"]
    /\ UNCHANGED <<tasks, current_task, borrowed>>

\* run_next_task, entered with the task table ts, at the end of operation r
run_next_task(ts, r) ==
    LET next == find_next_task(ts, current_task)
    IN IF next # None
       THEN /\ tasks' = [ts EXCEPT ![next].task_status = "Running"]
            /\ current_task' = next
            /\ borrowed' = guards_at_switch(borrowed)
            /\ ret' = r
            /\ UNCHANGED halted
       ELSE /\ tasks' = ts
            /\ halted' = TRUE
            /\ ret' = [r EXCEPT !.op = "panic", !.old = "All applications completed!"]
            /\ UNCHANGED <<current_task, borrowed>>

\* run_first_task
run_first_task ==
    /\ ~Booted
    /\ tasks' = [tasks EXCEPT ![0].task_status = "Running"]
    /\ started' = TRUE
    /\ borrowed' = guards_at_switch(borrowed)
    /\ ret' = Ret("run_first_task", 0, <<>>, 0, <<>>, <<>>)
    /\ last_fetch' = NoFetch
    /\ UNCHANGED <<current_task, halted, ready_queue, current, tcb>>

\* suspend_current_and_run_next
suspend_current_and_run_next ==
    /\ ~halted
    /\ started
    /\ LET r == Ret("suspend", current_task, <<>>, 0, <<>>, <<>>)
       IN IF borrowed # 0
          THEN BorrowPanic(r)
          ELSE run_next_task(mark_current_suspended(tasks, current_task), r)
    /\ last_fetch' = NoFetch
    /\ UNCHANGED <<started, ready_queue, current, tcb>>

\* exit_current_and_run_next
exit_current_and_run_next ==
    /\ ~halted
    /\ started
    /\ LET r == Ret("exit_current", current_task, <<>>, 0, <<>>, <<>>)
       IN IF borrowed # 0
          THEN BorrowPanic(r)
          ELSE run_next_task(mark_current_exited(tasks, current_task), r)
    /\ last_fetch' = NoFetch
    /\ UNCHANGED <<started, ready_queue, current, tcb>>

\* the task table once TaskManager::sys_call_add(num) has counted: the
\* counter of the current task goes up if that task is Running
count_call_of_all(ts, cur, num) ==
    [i \in DOMAIN ts |-> [ts[i] EXCEPT !.call_count[num] = @ + 1]]

count_call(ts, cur, num) ==
    IF ts[cur].task_status = "Running"
    THEN [ts EXCEPT ![cur].call_count[num] = @ + 1]
    ELSE ts

\* TaskManager::sys_call_add(num)
TaskManager_sys_call_add(num) ==
    /\ ~halted
    /\ started
    /\ TableCalls(tasks) < MaxCalls
    /\ LET r == Ret("sys_call_add", current_task, <<num>>, 0, <<>>, <<>>)
       IN IF borrowed # 0
          THEN BorrowPanic(r)
          ELSE /\ tasks' = count_call(tasks, current_task, num)
               /\ ret' = r
               /\ UNCHANGED <<current_task, halted, borrowed>>
    /\ last_fetch' = NoFetch
    /\ UNCHANGED <<started, ready_queue, current, tcb>>

\* TaskManager::mmap (do_mmap)
do_mmap(start, len, port) ==
    /\ ~halted
    /\ started
    /\ InRange(start, len)
    /\ Len(tasks[current_task].areas) < MaxAreas
    /\ LET page_floor == floor(start)
           page_ceil == ceil(start + len)
           r(val) ==
               Ret("do_mmap", current_task, <<start, len, port>>, val, <<>>, tasks[current_task])
       IN IF borrowed # 0
          THEN BorrowPanic(r(0))
          ELSE /\ IF overlaps(tasks[current_task].areas, page_floor, page_ceil)
                  THEN /\ ret' = r(-1)
                       /\ UNCHANGED tasks
                  ELSE /\ ret' = r(0)
                       /\ tasks' = [tasks EXCEPT ![current_task].areas =
                                       insert_framed_area(@, start, start + len,
                                                          permission(port))]
               /\ UNCHANGED <<current_task, halted, borrowed>>
    /\ last_fetch' = NoFetch
    /\ UNCHANGED <<started, ready_queue, current, tcb>>

\* TaskManager::munmap (do_munmap)
do_munmap(start, len) ==
    /\ ~halted
    /\ started
    /\ InRange(start, len)
    /\ LET u == unmap(tasks[current_task].areas, start, len)
           r == Ret("do_munmap", current_task, <<start, len>>, u.val, <<>>,
                    tasks[current_task])
       IN IF borrowed # 0
          THEN BorrowPanic(r)
          ELSE /\ ret' = r
               /\ tasks' = [tasks EXCEPT ![current_task].areas = u.areas]
               /\ UNCHANGED <<current_task, halted, borrowed>>
    /\ last_fetch' = NoFetch
    /\ UNCHANGED <<started, ready_queue, current, tcb>>

(***************************************************************************)
(* Initial states and specifications.                                      *)
(***************************************************************************)
ExitCodes == {0, 5}
UserPtrs == {16, 32}
\* pid arguments of waitpid: any child, a negative pid, every pid
WaitPids == {-1, -2} \cup Pids
Prios == 1 .. MaxPrio

\* the process world at boot: the initial process is in the ready queue
InitProc ==
    /\ ready_queue = <<0>>
    /\ current = NoTask
    /\ tcb = [p \in Pids |-> IF p = 0 THEN NewTCB ELSE FreeTCB]
    /\ halted = FALSE
    /\ last_fetch = NoFetch
    /\ ret = Ret("boot", NoTask, <<>>, 0, <<>>, <<>>)

\* the task table after lazy_static initialisation with n applications
InitTable(n) ==
    /\ tasks = [i \in 0 .. (n - 1) |-> NewTask]
    /\ current_task = 0
    /\ started = FALSE
    /\ borrowed = 0

Init == InitProc /\ InitTable(1)

\* the life of processes: scheduling, fork, exit, waitpid
Next ==
    \/ run_tasks
    \/ sys_yield
    \/ \E exit_code \in ExitCodes : sys_exit(exit_code)
    \/ sys_fork
    \/ \E pid \in WaitPids, ptr \in UserPtrs : sys_waitpid(pid, ptr)

Spec == Init /\ [][Next]_vars

\* stride scheduling: processes that fork, yield and set their priority
NextSched ==
    \/ run_tasks
    \/ sys_yield
    \/ sys_fork
    \/ \E prio \in Prios : sys_set_priority(prio)

SpecSched == Init /\ [][NextSched]_vars

\* address spaces: mmap and munmap through both entry points
NextMem ==
    \/ run_tasks
    \/ run_first_task
    \/ \E start \in Addrs, len \in Addrs, port \in Ports : sys_mmap(start, len, port)
    \/ \E start \in Addrs, len \in Addrs : sys_munmap(start, len)
    \/ \E start \in Addrs, len \in Addrs, port \in Ports : do_mmap(start, len, port)
    \/ \E start \in Addrs, len \in Addrs : do_munmap(start, len)

SpecMem == Init /\ [][NextMem]_vars

\* the task table: first task, yield, exit, syscall counting
InitTasks == InitProc /\ (\E n \in 1 .. MaxApp : InitTable(n))

NextTasks ==
    \/ run_first_task
    \/ suspend_current_and_run_next
    \/ exit_current_and_run_next
    \/ \E num \in CountedSyscalls : TaskManager_sys_call_add(num)

SpecTasks == InitTasks /\ [][NextTasks]_vars

\* boot with the initial process in the ready queue and MaxApp applications
\* in the task table
InitApps == InitProc /\ InitTable(MaxApp)

\* pointers user programs pass for a TimeVal or a TaskInfo: null, an address
\* of the program image, an address of the page after it
InfoPtrs == {0, 16, PAGE_SIZE + 16}

\* programs and counted syscalls: processes that spawn, exec, map memory, set
\* their priority and ask for the time and for their task info, and the task
\* table counting the syscalls of its tasks
NextCalls ==
    \/ run_tasks
    \/ sys_yield
    \/ sys_exit(0)
    \/ \E path \in Paths : sys_spawn(path)
    \/ \E path \in Paths : sys_exec(path)
    \/ \E ts \in InfoPtrs \ {0}, us \in Micros : sys_get_time(ts, us)
    \/ \E ti \in InfoPtrs, elapsed \in Millis : sys_task_info(ti, elapsed)
    \/ \E start \in {PAGE_SIZE \div 2, PAGE_SIZE} : sys_mmap(start, PAGE_SIZE, 3)
    \/ \E len \in {PAGE_SIZE \div 2, PAGE_SIZE} : sys_munmap(PAGE_SIZE, len)
    \/ \E prio \in {1, 3} : sys_set_priority(prio)
    \/ run_first_task
    \/ suspend_current_and_run_next
    \/ \E num \in CountedSyscalls : TaskManager_sys_call_add(num)

SpecCalls == InitApps /\ [][NextCalls]_vars

\* the life of tasks under both schedulers: processes on the stride ready
\* queue, applications in the task table
NextLife ==
    \/ Next
    \/ NextTasks

SpecLife == InitApps /\ [][NextLife]_vars

\* three processes with equal strides: the initial process has forked twice
\* and yielded, its first child has run and yielded, and its second child is
\* running; each of them has been fetched once
ThreeLevel ==
    /\ ready_queue = <<0, 1>>
    /\ current = 2
    /\ tcb = [p \in Pids |->
                IF p = 0 THEN [NewTCB EXCEPT !.children = <<1, 2>>,
                                             !.stride = BIGSTRIDE \div DefaultPriority]
                ELSE IF p = 1 THEN [ForkTCB([q \in Pids |-> NewTCB], 0)
                                       EXCEPT !.stride = BIGSTRIDE \div DefaultPriority]
                ELSE IF p = 2 THEN [ForkTCB([q \in Pids |-> NewTCB], 0)
                                       EXCEPT !.stride = BIGSTRIDE \div DefaultPriority,
                                              !.status = "Running"]
                ELSE FreeTCB]
    /\ halted = FALSE
    /\ ret.op = "yield" /\ ret.caller = 1
    /\ last_fetch.called /\ last_fetch.queue = <<2, 0, 1>>

InitStride ==
    /\ ret = Ret("yield", 1, <<>>, 0, <<>>, <<>>)
    /\ last_fetch = [called |-> TRUE, queue |-> <<2, 0, 1>>,
                     stride |-> [p \in Pids |-> IF p = 2 THEN DefaultStride
                                                ELSE BIGSTRIDE \div DefaultPriority],
                     pass |-> [p \in Pids |-> BIGSTRIDE \div DefaultPriority]]
    /\ ThreeLevel
    /\ InitTable(1)

\* a fixed set of processes that yield and set their priority
NextStride ==
    \/ sys_yield
    \/ \E prio \in Prios : sys_set_priority(prio)

SpecStride == InitStride /\ [][NextStride]_vars

\* the same, where the running process always yields in the end: every task
\* fetched is added back to the ready queue
SpecStrideFair == SpecStride /\ WF_vars(sys_yield)

(***************************************************************************)
(* Properties.                                                             *)
(***************************************************************************)
\* the position fetch must take from queue q with strides st: the first one
\* whose stride is minimal
FirstMinimal(q, st, i) ==
    /\ i \in 1 .. Len(q)
    /\ \A j \in 1 .. Len(q) : st[q[i]] <= st[q[j]]
    /\ \A j \in 1 .. (i - 1) : st[q[i]] < st[q[j]]

\* the last operation fetched a task from a non-empty queue and returned
Fetched == last_fetch.called /\ last_fetch.queue # <<>> /\ ~halted

\* what fetch did to the queue and to the strides, the new stride of the task
\* taken being given
FetchEffect(newStride) ==
    \E i \in 1 .. Len(last_fetch.queue) :
        /\ FirstMinimal(last_fetch.queue, last_fetch.stride, i)
        /\ current = last_fetch.queue[i]
        /\ ready_queue = RemoveAt(last_fetch.queue, i)
        /\ tcb[current].stride = newStride
        /\ \A p \in Pids \ {current} : tcb[p].stride = last_fetch.stride[p]

C2_OneRunning ==
    (started /\ ~halted) =>
        Cardinality({i \in DOMAIN tasks : tasks[i].task_status = "Running"}) = 1

\* C2 witness: after yields and exits one task runs, one is ready, one has exited.
C2_Witness ==
    /\ started
    /\ ~halted
    /\ ret.op = "suspend"
    /\ \E i, j, k \in DOMAIN tasks :
          /\ tasks[i].task_status = "Running"
          /\ tasks[j].task_status = "Ready"
          /\ tasks[k].task_status = "Exited"

\* the last operation was a sys_waitpid that returned
Waited == ret.op = "waitpid"

\* child i of the children list sys_waitpid found matches its pid argument
Matches(i) == ret.args[1] = -1 \/ ret.old.children[i] = ret.args[1]

MatchingChildren == {i \in 1 .. Len(ret.old.children) : Matches(i)}
MatchingZombies == {i \in MatchingChildren : ret.old.zombie[i]}
FirstMatchingZombie == CHOOSE i \in MatchingZombies : \A j \in MatchingZombies : i <= j

\* C3: sys_waitpid returns -1 when no child matches pid, -2 when children
\* match but none of them is a zombie, and otherwise the pid of the first
\* matching zombie of the children list.
C3_WaitpidResult ==
    Waited =>
        /\ MatchingChildren = {} => ret.val = -1
        /\ (MatchingChildren # {} /\ MatchingZombies = {}) => ret.val = -2
        /\ MatchingZombies # {} => ret.val = ret.old.children[FirstMatchingZombie]

\* C3 witness: two zombie children matched and the pid of the first one of
\* the children list, not of the second, was returned.
C3_Witness ==
    /\ Waited
    /\ Cardinality(MatchingZombies) >= 2
    /\ ret.val = ret.old.children[1]
    /\ ret.val # ret.old.children[2]

\* the children lists of the tasks that exist before and after a step only
\* grow at the back, unless the step is a successful waitpid of the parent
ChildrenKept ==
    \A p \in Pids :
        (tcb[p].status # "Free" /\ tcb'[p].status # "Free") =>
            \/ \E k \in 0 .. 1 :
                  /\ Len(tcb'[p].children) = Len(tcb[p].children) + k
                  /\ SubSeq(tcb'[p].children, 1, Len(tcb[p].children)) = tcb[p].children
            \/ ret'.op = "waitpid" /\ ret'.caller = p /\ ret'.val >= 0

\* a task disappears, with its children list, only in a successful waitpid
DroppedByWaitpid ==
    \A p \in Pids :
        (tcb[p].status # "Free" /\ tcb'[p].status = "Free") =>
            ret'.op = "waitpid" /\ ret'.val >= 0

\* what a sys_waitpid that returned did to its caller's children and to user memory
WaitpidEffect ==
    Waited =>
        /\ ret.val >= 0 =>
              /\ MatchingZombies # {}
              /\ tcb[ret.caller].children = RemoveAt(ret.old.children, FirstMatchingZombie)
              /\ ret.wrote = <<<<ret.args[2], ret.old.exit_code[FirstMatchingZombie]>>>>
        /\ ret.val < 0 =>
              /\ tcb[ret.caller].children = ret.old.children
              /\ ret.wrote = <<>>

\* C4: a successful sys_waitpid removes exactly the reaped child from the
\* caller's children, keeps the others in order and writes the child's exit
\* code through the pointer; one that returns -1 or -2 changes no children
\* list and writes nothing; no other operation removes a child.
C4_WaitpidFrame ==
    /\ []WaitpidEffect
    /\ [][ChildrenKept /\ DroppedByWaitpid]_vars

\* C4 witness: the second of two children was reaped, its exit code 5 was
\* written through the pointer, and the first child is still in the list.
C4_Witness ==
    /\ Waited
    /\ ret.val >= 0
    /\ Len(ret.old.children) = 2
    /\ ret.val = ret.old.children[2]
    /\ tcb[ret.caller].children = <<ret.old.children[1]>>
    /\ ret.wrote = <<<<ret.args[2], 5>>>>

\* the last operation was a sys_set_priority
SetPriority == ret.op = "set_priority"

\* C5: sys_set_priority(p) with p < 2 returns -1 and leaves priority, stride
\* and pass as they were; with p >= 2 it returns p, sets the priority to p and
\* the pass to BIGSTRIDE / p, and leaves the stride as it was.
C5_SetPriority ==
    SetPriority =>
        LET p == ret.args[1]
            now == tcb[ret.caller]
        IN /\ p < 2 =>
                 /\ ret.val = -1
                 /\ now.priority = ret.old.priority
                 /\ now.stride = ret.old.stride
                 /\ now.pass = ret.old.pass
           /\ p >= 2 =>
                 /\ ret.val = p
                 /\ now.priority = p
                 /\ now.pass = BIGSTRIDE \div p
                 /\ now.stride = ret.old.stride

\* C5 witness: a task that had run (stride > 0) changed its priority and its pass.
C5_Witness ==
    /\ SetPriority
    /\ ret.val >= 2
    /\ ret.old.stride > 0
    /\ tcb[ret.caller].priority # ret.old.priority
    /\ tcb[ret.caller].pass # ret.old.pass

\* the last operation was a sys_mmap, or a TaskManager::mmap of the task table
Mapped == ret.op \in {"mmap", "do_mmap"}

\* the areas of the task of the last operation, as they are now
AreasNow ==
    IF ret.op \in {"do_mmap", "do_munmap"}
    THEN tasks[ret.caller].areas
    ELSE tcb[ret.caller].areas

\* the pages that hold a byte of [start, start + len), and for an empty
\* range at an unaligned start the page of start
PagesOf(start, len) ==
    {p \in 0 .. (MaxPage + 1) :
        /\ p * PAGE_SIZE < start + len
        /\ (p + 1) * PAGE_SIZE > start}

\* some area of as holds a page of ps
Meets(as, ps) == \E i \in 1 .. Len(as) : Pages(as[i]) \cap ps # {}

\* C6: an mmap whose page range [floor(start), ceil(start+len)) meets an area
\* the task has already mapped returns -1 and leaves the areas as they were.
C6_MmapOverlap ==
    Mapped =>
        (Meets(ret.old.areas, PagesOf(ret.args[1], ret.args[2])) =>
            /\ ret.val = -1
            /\ AreasNow = ret.old.areas)

\* C6 witness: a sys_mmap with a valid port and an aligned start was refused
\* because its two pages run into an area that an earlier mmap had mapped.
C6_Witness ==
    /\ ret.op = "mmap"
    /\ ret.val = -1
    /\ ret.args[3] = 3
    /\ ret.args[1] % PAGE_SIZE = 0
    /\ ret.args[2] = 2 * PAGE_SIZE
    /\ Len(ret.old.areas) = 2
    /\ Pages(ret.old.areas[2]) \cap PagesOf(ret.args[1], ret.args[2]) # {}
    /\ ~(PagesOf(ret.args[1], ret.args[2]) \subseteq Pages(ret.old.areas[2]))

\* C7: sys_mmap with a port bit outside bits 0..2, with port 0, or with a
\* start that is not a multiple of 4096 returns -1 and leaves the caller's
\* control block, its areas and syscall counters included, as it was.
C7_MmapBadArgs ==
    ret.op = "mmap" =>
        ((ret.args[3] >= 8 \/ ret.args[3] = 0 \/ ret.args[1] % 4096 # 0) =>
            /\ ret.val = -1
            /\ tcb[ret.caller] = ret.old)

\* C7 witness: port 0 was refused for an aligned range that was free to map.
C7_Witness ==
    /\ ret.op = "mmap"
    /\ ret.args[3] = 0
    /\ ret.args[1] % 4096 = 0
    /\ ret.args[2] > 0
    /\ ~Meets(ret.old.areas, PagesOf(ret.args[1], ret.args[2]))
    /\ ret.val = -1

\* the last operation was a sys_munmap(start, len) of page-aligned start and
\* len, and the operation before it a sys_mmap(start, len, port) of the same
\* task that returned 0
RoundTrip ==
    /\ ret.op = "munmap"
    /\ ret.old.prev.op = "mmap"
    /\ ret.old.prev.caller = ret.caller
    /\ ret.old.prev.val = 0
    /\ ret.old.prev.args[1] = ret.args[1]
    /\ ret.old.prev.args[2] = ret.args[2]
    /\ ret.args[1] % PAGE_SIZE = 0
    /\ ret.args[2] % PAGE_SIZE = 0

\* C8: sys_munmap(start, len) right after a sys_mmap(start, len, port) that
\* returned 0, start and len page aligned, returns 0 and leaves no area
\* covering a page of [start, start+len), and the areas that existed before
\* the mmap are as they were.
C8_MmapMunmapRoundTrip ==
    RoundTrip =>
        /\ ret.val = 0
        /\ ~Meets(AreasNow, PagesOf(ret.args[1], ret.args[2]))
        /\ Len(AreasNow) >= Len(ret.old.prev.areas)
        /\ SubSeq(AreasNow, 1, Len(ret.old.prev.areas)) = ret.old.prev.areas

\* C8 witness: two pages were mapped and unmapped again, next to the area of
\* the program image, which is still there.
C8_Witness ==
    /\ RoundTrip
    /\ ret.args[2] = 2 * PAGE_SIZE
    /\ ret.val = 0
    /\ Meets(ret.old.areas, PagesOf(ret.args[1], ret.args[2]))
    /\ AreasNow = ImageAreas

\* C9: sys_munmap returns -1 when start or len is not page aligned and when
\* some page of [start, start+len) is not mapped; it returns 0 only when the
\* whole range was mapped and has been unmapped.
C9_MunmapResult ==
    ret.op = "munmap" =>
        LET ps == PagesOf(ret.args[1], ret.args[2])
            misaligned == ret.args[1] % PAGE_SIZE # 0 \/ ret.args[2] % PAGE_SIZE # 0
            hole == \E p \in ps : ~Meets(ret.old.areas, {p})
        IN /\ (misaligned \/ hole) => ret.val = -1
           /\ ret.val = 0 => (~misaligned /\ ~hole /\ ~Meets(AreasNow, ps))

\* no two areas of as share a page
Disjoint(as) ==
    \A i, j \in 1 .. Len(as) : i # j => Pages(as[i]) \cap Pages(as[j]) = {}

\* C10: whatever mmap and munmap calls were made, no two mapped areas of a
\* task share a virtual page.
C10_AreasDisjoint ==
    /\ \A p \in Pids : tcb[p].status # "Free" => Disjoint(tcb[p].areas)
    /\ \A i \in DOMAIN tasks : Disjoint(tasks[i].areas)

\* C10 witness: a task holds the image and an area that a munmap has cut
\* down from the two pages an mmap had mapped.
C10_Witness ==
    /\ ret.op \in {"munmap", "do_munmap"}
    /\ ret.val = 0
    /\ Len(AreasNow) = 2
    /\ Len(ret.old.areas) = 2
    /\ Cardinality(Pages(ret.old.areas[2])) = 2
    /\ Cardinality(Pages(AreasNow[2])) = 1

\* the step is an invocation of the counted syscall n by task p of the
\* process world
Invoked(p, n) == ret'.op = n /\ ret'.caller = p

\* the invocation got past the argument check of its handler: port and start
\* of sys_mmap, start and len of sys_munmap, the priority of sys_set_priority
PastArgumentCheck ==
    CASE ret'.op = "mmap" ->
            /\ ret'.args[3] < 8
            /\ ret'.args[3] # 0
            /\ ret'.args[1] % PAGE_SIZE = 0
      [] ret'.op = "munmap" ->
            ret'.args[1] % PAGE_SIZE = 0 /\ ret'.args[2] % PAGE_SIZE = 0
      [] ret'.op = "set_priority" -> ret'.args[1] >= 2
      [] OTHER -> TRUE

\* in a step every counter of every task goes up by one where hit says so
\* and stays as it is elsewhere, and hit only names a task that is Running;
\* the same for the counters of the task table, which sys_call_add(num) counts
CountStep(hit) ==
    /\ \A p \in Pids :
          (tcb[p].status # "Free" /\ tcb'[p].status # "Free") =>
              \A n \in CountedSyscalls :
                  /\ tcb'[p].call_count[n] =
                        tcb[p].call_count[n] + (IF hit[p, n] THEN 1 ELSE 0)
                  /\ hit[p, n] => tcb[p].status = "Running"
    /\ \A i \in DOMAIN tasks, n \in CountedSyscalls :
          LET counted == /\ ret'.op = "sys_call_add"
                         /\ ret'.caller = i
                         /\ ret'.args[1] = n
          IN /\ tasks'[i].call_count[n] =
                    tasks[i].call_count[n] + (IF counted THEN 1 ELSE 0)
             /\ counted => tasks[i].task_status = "Running"

C12_Fork ==
    ret.op = "fork" =>
        /\ ret.val \in Pids
        /\ ret.val # ret.caller
        /\ ret.val \notin ret.old.live
        /\ tcb[ret.val].status = "Ready"
        /\ tcb[ret.val].x10 = 0
        /\ tcb[ret.caller].children = Append(ret.old.tcb.children, ret.val)
        /\ ready_queue = Append(ret.old.queue, ret.val)
        /\ Occurrences(ready_queue, ret.val) = 1

\* C12 witness: a parent that already had a child forked a second one
\* behind a task waiting in the ready queue.
C12_Witness ==
    /\ ret.op = "fork"
    /\ Len(ret.old.tcb.children) = 1
    /\ Len(ret.old.queue) >= 1
    /\ Len(tcb[ret.caller].children) = 2
    /\ ready_queue[Len(ready_queue)] = ret.val
    /\ ret.val = tcb[ret.caller].children[2]

\* C13: sys_exec(path) returns -1 and leaves the task as it was when the path
\* names no file or the file is no loadable image, returns 0 only when the
\* address space and the trap context have been replaced, and in both cases
\* keeps the task's parent link and children (its pid is its index).
C13_Exec ==
    ret.op = "exec" =>
        LET path == ret.args[1]
            now == tcb[ret.caller]
        IN /\ path \in {"none", "bad"} =>
                 /\ ret.val = -1
                 /\ now = ret.old.tcb
           /\ ret.val = 0 =>
                 /\ path = "app"
                 /\ now.areas = ImageAreas
                 /\ now.x10 = 0
           /\ now.parent = ret.old.tcb.parent
           /\ now.children = ret.old.tcb.children

\* the pids in use
Live == {p \in Pids : tcb[p].status # "Free"}

Validating == {"mmap", "munmap", "spawn", "exec", "waitpid", "set_priority", "task_info"}

\* C15: a process syscall that returns a negative value for a validation
\* error has mutated nothing: the caller's mapped areas, priority, stride,
\* pass, children and syscall counters and the ready queue are as before.
C15_ErrorsMutateNothing ==
    [][(ret'.op \in Validating /\ ret'.val < 0) =>
          LET was == tcb[ret'.caller]
              now == tcb'[ret'.caller]
          IN /\ now.areas = was.areas
             /\ now.priority = was.priority
             /\ now.stride = was.stride
             /\ now.pass = was.pass
             /\ now.children = was.children
             /\ now.call_count = was.call_count
             /\ ready_queue' = ready_queue]_vars

\* C16: sys_task_info(ptr) returns -1 and writes nothing when ptr is null,
\* and otherwise returns 0 after writing through ptr the status Running, the
\* caller's syscall counters and a time.
C16_TaskInfo ==
    ret.op = "task_info" =>
        LET ptr == ret.args[1]
        IN /\ ptr = 0 =>
                 /\ ret.val = -1
                 /\ ret.wrote = <<>>
           /\ ptr # 0 =>
                 /\ ret.val = 0
                 /\ Len(ret.wrote) = 1
                 /\ ret.wrote[1][1] = ptr
                 /\ ret.wrote[1][2].status = "Running"
                 /\ ret.wrote[1][2].syscall_times = tcb[ret.caller].call_count
                 /\ ret.wrote[1][2].time \in Millis

\* fetch was called on an empty ready queue: no task came back, the queue is
\* still empty and no stride has moved
EmptyFetch ==
    (last_fetch.called /\ last_fetch.queue = <<>>) =>
        /\ current = NoTask
        /\ ready_queue = <<>>
        /\ \A p \in Pids : tcb[p].stride = last_fetch.stride[p]

\* the step is the panic of run_next_task
HaltStep == ~halted /\ halted' /\ ret'.old = "All applications completed!"

\* the running task of the task table exits while no task is Ready: the
\* kernel halts and no task is switched to
ExitWithNoneReady ==
    (/\ started /\ ~halted
     /\ tasks[current_task].task_status = "Running"
     /\ tasks'[current_task].task_status = "Exited"
     /\ \A i \in DOMAIN tasks : tasks[i].task_status # "Ready")
    => /\ HaltStep
       /\ current_task' = current_task
       /\ \A i \in DOMAIN tasks : tasks'[i].task_status # "Running"

\* the kernel halts this way only when no task is Ready
HaltOnlyWithNoneReady ==
    HaltStep => \A i \in DOMAIN tasks :
                    tasks[i].task_status # "Ready" /\ tasks'[i].task_status # "Ready"

\* C17: fetch on an empty ready queue returns no task and changes nothing;
\* when the running task exits and no task is Ready the kernel halts with a
\* panic and switches to no task, and it halts so only when no task is Ready.
C17_EmptyFetchAndHalt ==
    /\ []EmptyFetch
    /\ [][ExitWithNoneReady /\ HaltOnlyWithNoneReady]_vars

\* C17 witness: the last of three applications has exited after the two
\* others, and the kernel has halted with all of them Exited.
C17_Witness ==
    /\ halted
    /\ ret.op = "panic"
    /\ ret.old = "All applications completed!"
    /\ Cardinality(DOMAIN tasks) = 3
    /\ \A i \in DOMAIN tasks : tasks[i].task_status = "Exited"

\* the status changes of the task table in a step: Ready to Running, Running
\* to Ready in a yield, Running to Exited in an exit, and no other; a task
\* that is Exited stays Exited
TableStatusStep ==
    \A i \in DOMAIN tasks :
        LET was == tasks[i].task_status
            now == tasks'[i].task_status
        IN /\ was # now =>
                 \/ was = "Ready" /\ now = "Running"
                 \/ was = "Running" /\ now = "Ready" /\ ret'.op = "suspend"
                 \/ was = "Running" /\ now = "Exited" /\ ret'.op \in {"exit_current", "panic"}
           /\ was = "Exited" => now = "Exited"

\* the same for the processes, whose control blocks are created Ready by
\* fork and destroyed once they are Zombie and reaped
ProcessStatusStep ==
    \A p \in Pids :
        LET was == tcb[p].status
            now == tcb'[p].status
        IN /\ was # now =>
                 \/ was = "Ready" /\ now = "Running"
                 \/ was = "Running" /\ now = "Ready" /\ ret'.op = "yield"
                 \/ was = "Running" /\ now = "Zombie" /\ ret'.op = "exit"
                 \/ was = "Free" /\ now = "Ready" /\ ret'.op = "fork"
                 \/ was = "Zombie" /\ now = "Free" /\ ret'.op = "waitpid"
           /\ was = "Zombie" => (now \in {"Zombie", "Free"} /\ current' # p)

\* C18: a task's status changes only from Ready to Running (selected by the
\* scheduler), from Running to Ready (yield) and from Running to Zombie or
\* Exited (exit); a Zombie or Exited task never changes status again and is
\* never selected to run.
C18_StatusTransitions == [][TableStatusStep /\ ProcessStatusStep]_vars

\* C18 witness: application 0 has yielded and the scheduler, passing over
\* application 1, which is Exited, has selected application 2.
C18_Witness ==
    /\ ret.op = "suspend"
    /\ ret.caller = 0
    /\ Cardinality(DOMAIN tasks) = 3
    /\ tasks[0].task_status = "Ready"
    /\ tasks[1].task_status = "Exited"
    /\ tasks[2].task_status = "Running"
    /\ current_task = 2

\* C19: over add, fetch and set_priority no task's stride ever decreases,
\* also when stride + pass exceeds the machine word.
C19_StrideNeverDecreases ==
    [][\A p \in Pids :
          (tcb[p].status # "Free" /\ tcb'[p].status # "Free") =>
              tcb'[p].stride >= tcb[p].stride]_vars

\* the operations of the task table that end in a __switch
Switching == {"run_first_task", "suspend", "exit_current"}

\* C20: at every __switch of run_first_task and run_next_task no guard of
\* the task manager's inner state is live, so that the task the switch
\* resumes never fails with a double borrow when it takes exclusive access.
C20_NoGuardAcrossSwitch ==
    /\ ret.op \in Switching => borrowed = 0
    /\ ~(ret.op = "panic" /\ ret.old = "already borrowed: BorrowMutError")

\* C20 witness: an application that run_next_task has switched to took
\* exclusive access of the task manager, in sys_call_add, and counted.
C20_Witness ==
    /\ ret.op = "sys_call_add"
    /\ ret.caller # 0
    /\ current_task = ret.caller
    /\ tasks[current_task].call_count[ret.args[1]] = 1
    /\ borrowed = 0
    /\ ~halted

\* the step ends in run_next_task: a yield or an exit of the task table
SchedStep ==
    /\ started /\ ~halted /\ borrowed = 0
    /\ \/ ret'.op \in {"suspend", "exit_current"}
       \/ HaltStep

\* the current task yielded in that step (it did not exit)
Yielded == tasks'[current_task].task_status # "Exited"

\* task i is Ready when find_next_task scans the table in that step: the
\* current task is Ready if it yielded, the others are as they were
Scanned(i) ==
    IF i = current_task THEN Yielded ELSE tasks[i].task_status = "Ready"

\* the place of slot i in the order current+1, current+2, ..., current+num_app
\* taken modulo num_app: 1 for the slot after the current one, num_app for
\* the current task's own slot
Place(i) == ((i - current_task - 1) % num_app) + 1

\* C21: find_next_task returns the first Ready task in the cyclic order
\* current+1, current+2, ... modulo num_app, the current task's own slot
\* last, and None exactly when no task is Ready; a task that yields while no
\* other task is Ready is selected again itself.
C21_FindNextCyclic ==
    [][SchedStep =>
          /\ IF \E i \in DOMAIN tasks : Scanned(i)
             THEN /\ ~halted'
                  /\ Scanned(current_task')
                  /\ \A j \in DOMAIN tasks : Scanned(j) => Place(current_task') <= Place(j)
                  /\ tasks'[current_task'].task_status = "Running"
             ELSE /\ HaltStep
                  /\ current_task' = current_task
          /\ (/\ Yielded
              /\ \A j \in DOMAIN tasks \ {current_task} : tasks[j].task_status # "Ready")
             => (current_task' = current_task /\ tasks'[current_task].task_status = "Running")
      ]_vars

\* C21 witness: the last of three applications has yielded after the two
\* others exited; the scan wrapped over slots 0 and 1 and selected the
\* yielding task itself.
C21_Witness ==
    /\ ret.op = "suspend"
    /\ ret.caller = 2
    /\ Cardinality(DOMAIN tasks) = 3
    /\ tasks[0].task_status = "Exited"
    /\ tasks[1].task_status = "Exited"
    /\ current_task = 2
    /\ tasks[2].task_status = "Running"

\* the zombie children sys_waitpid can select: a pair of a task and a zombie
\* of its children list
ZombieChildren ==
    {x \in Pids \X Pids :
        /\ tcb[x[1]].status # "Free"
        /\ Occurrences(tcb[x[1]].children, x[2]) > 0
        /\ tcb[x[2]].status = "Zombie"}

\* C22: the assertion of sys_waitpid never fails: a Zombie child that can
\* be selected for reaping is referenced by its parent's children list only,
\* once, and is neither in the ready queue nor the running task.
C22_WaitpidAssertion ==
    /\ ~(ret.op = "panic" /\ ret.old = "assert_eq!(Arc::strong_count(&child), 1)")
    /\ \A x \in ZombieChildren :
          /\ Occurrences(ready_queue, x[2]) = 0
          /\ current # x[2]
          /\ strong_count(tcb, ready_queue, current, x[2]) = 1
          /\ Occurrences(tcb[x[1]].children, x[2]) = 1

\* C22 witness: sys_waitpid passed its assertion and reaped a zombie child
\* while another child of the caller waits in the ready queue.
C22_Witness ==
    /\ Waited
    /\ ret.val >= 0
    /\ tcb[ret.val].status = "Free"
    /\ current = ret.caller
    /\ ret.old.zombie[FirstMatchingZombie]
    /\ \E i \in 1 .. Len(ready_queue) :
          Occurrences(tcb[current].children, ready_queue[i]) = 1

\* the processes that take part in scheduling
Scheduled == {p \in Pids : tcb[p].status \in {"Ready", "Running"}}

\* the difference between the largest and the smallest stride
StrideSpread ==
    LET hi == CHOOSE p \in Scheduled : \A o \in Scheduled : tcb[o].stride <= tcb[p].stride
        lo == CHOOSE p \in Scheduled : \A o \in Scheduled : tcb[p].stride <= tcb[o].stride
    IN tcb[hi].stride - tcb[lo].stride

\* C23: for a fixed set of tasks that start with the same stride, have
\* priorities of at least 2 and are added back to the ready queue after
\* each fetch, the largest and the smallest stride never differ by more
\* than BIGSTRIDE / 2, whatever priorities set_priority accepts.
C23_StrideSpread ==
    /\ \A p \in Scheduled : tcb[p].priority >= 2 /\ tcb[p].pass <= BIGSTRIDE \div 2
    /\ Scheduled # {} => StrideSpread <= BIGSTRIDE \div 2

\* C24: no starvation: when every task fetched is added back to the ready
\* queue in the end, every task of the ready queue is returned by fetch in
\* the end, whatever priorities set_priority accepts (unless the kernel
\* has halted before).
C24_NoStarvation ==
    \A p \in Pids : (Occurrences(ready_queue, p) > 0) ~> (current = p \/ halted)

\* no task has changed its pass: all of them have the pass of a new task
SamePass ==
    \A p \in Scheduled :
        tcb[p].pass = BIGSTRIDE \div DefaultPriority /\ tcb[p].call_count["set_priority"] = 0

\* C25: with the same pass for all tasks, the same stride when they are
\* first queued and every task added at the back after it is fetched, every
\* fetch returns the task at the front of the ready queue, as a FIFO
\* scheduler does.
C25_SamePassIsFifo ==
    [][(SamePass /\ last_fetch'.called /\ last_fetch'.queue # <<>> /\ ~halted')
          => current' = Head(last_fetch'.queue)]_vars

====
